---- MODULE Spec2Model ----
(***************************************************************************)
(* A model of scripts/tagger.py: the interrogator table kept by            *)
(* refresh_interrogators and the request handler give_me_the_tags (single  *)
(* image mode and the batch loop over the files a glob matches).           *)
(*                                                                         *)
(* Text is a sequence of one-character strings, a directory is the         *)
(* sequence of its path components, and a file path is a record            *)
(* [dir, stem, ext].                                                       *)
(***************************************************************************)
EXTENDS Integers, Sequences, FiniteSets, TLC

\* ---------------------------------------------------------------- bounds
MaxFiles == 2
MaxRuns == 2
MaxRootLen == 2
MaxSubLen == 1

\* ------------------------------------------------------------- constants
Builtins == {"wd14-vit", "wd14-convnext"}
ProjNames == {"p1", "p2"}
EntryKinds == {"file", "dir", "project"}
CallNames == {"wd14-vit", "p1", "nope"}
NoImage == "none"
Images == {NoImage, "upload"}
Policies == {"ignore", "copy", "append", "prepend"}
TplName == "[name].[output_extension]"
TplLiteral == "caption.txt"
TplBadToken == "[name:x].[output_extension]"
TplBadHash == "[hash:nope].[output_extension]"
Templates == {TplName, TplLiteral, TplBadToken, TplBadHash}
DirNames == {"a", "b"}
OutDir == <<"out">>
ImageNames == <<"x.png", "y.png", "z.png", "w.png">>
Kinds == {"good", "unidentified", "unreadable", "broken"}
Existing == <<"a", ",", " ", "b">>
NoPath == [dir |-> <<>>, stem |-> "", ext |-> ""]
NoResult == [text |-> <<>>, info |-> "pending"]
Normal == [text |-> <<>>, info |-> ""]
MsgInvalid == "is not a valid interrogator"
MsgNotDir == "input path is not a directory"
MsgFormat == "format error"

VARIABLES
    interrogators,  \* the global table: name -> instance
    projDir,        \* deepdanbooru_projects_path: entry name -> kind of entry
    rpc,            \* refresh_interrogators: position of the running call
    rscan,          \* refresh_interrogators: entries os.scandir still yields
    rret,           \* refresh_interrogators: the list last returned
    fresh,          \* no entry of projDir changed since the last refresh began
    job,            \* the batch form values of the request
    rootIsDir,      \* os.path.isdir(base_dir)
    paths,          \* the files the glob matches, in enumeration order
    fs,             \* text and JSON files on disk: path -> content
    dirs,           \* directories on disk
    pc,             \* give_me_the_tags: position of the running call
    name,           \* give_me_the_tags: the interrogator argument
    instance,       \* give_me_the_tags: the instance bound at line 295
    image,          \* give_me_the_tags: the image argument
    idx,            \* give_me_the_tags: index of the file the loop is at
    output,         \* give_me_the_tags: the list output
    output_path,    \* give_me_the_tags: output_path of the current file
    interrogated,   \* indices interrogator.interrogate was called for
    result,         \* what the call returned
    seen,           \* the key set the membership test at line 292 read
    runs,           \* calls started
    fs0,            \* fs when the running call started
    dirs0,          \* dirs when the running call started
    ran             \* interrogator names a batch call has already ended for

discovery == <<interrogators, projDir, rpc, rscan, rret, fresh>>
disk == <<fs, dirs>>
inputs == <<job, rootIsDir, paths>>
locals == <<name, instance, image, idx, output, output_path, interrogated, seen>>
history == <<runs, fs0, dirs0, ran>>
vars == <<discovery, disk, inputs, locals, pc, result, history>>

\* --------------------------------------------------------------- helpers
RECURSIVE Join(_, _)
Join(list, sep) ==
    IF list = <<>> THEN <<>>
    ELSE IF Len(list) = 1 THEN list[1]
    ELSE list[1] \o sep \o Join(Tail(list), sep)

Range(s) == {s[i] : i \in DOMAIN s}

SeqsUpTo(S, lo, hi) == UNION {[1..n -> S] : n \in lo..hi}

Prefixes(d) == {SubSeq(d, 1, n) : n \in 1..Len(d)}

Rank(n) ==
    CASE n = "p1" -> 1
      [] n = "p2" -> 2
      [] n = "wd14-convnext" -> 3
      [] n = "wd14-vit" -> 4

RECURSIVE Sorted(_)
Sorted(S) ==
    IF S = {} THEN <<>>
    ELSE LET m == CHOOSE x \in S : \A y \in S : Rank(x) <= Rank(y)
         IN <<m>> \o Sorted(S \ {m})

Stem(n) ==
    CASE n = "x.png" -> "x"
      [] n = "y.png" -> "y"
      [] n = "z.png" -> "z"
      [] n = "w.png" -> "w"

\* interrogator.interrogate(image): the raw (ratings, tags) of a file
Interrogate(f) ==
    CASE f.name = "x.png" -> [ratings |-> <<"safe">>, tags |-> <<"c", "d", "q">>]
      [] f.name = "y.png" -> [ratings |-> <<"safe">>, tags |-> <<"g", "q">>]
      [] f.name = "z.png" -> [ratings |-> <<"explicit">>, tags |-> <<"h", "i">>]
      [] f.name = "w.png" -> [ratings |-> <<"safe">>, tags |-> <<"k">>]

\* Interrogator.postprocess_tags: the tags that pass the options, as strings
PostprocessTags(tags) == [i \in DOMAIN SelectSeq(tags, LAMBDA t : t # "q") |->
                            <<SelectSeq(tags, LAMBDA t : t # "q")[i]>>]

PlainTags(f) == Join(PostprocessTags(Interrogate(f).tags), <<",", " ">>)

\* ------------------------------------------------------ output path
IndexOf(parts, v) ==
    CHOOSE i \in 1..Len(parts) : parts[i] = v /\ \A j \in 1..(i - 1) : parts[j] # v

Parts(root, f) == root \o f.sub \o <<f.name>>

OutputBase(j) == IF j.out # <<>> THEN j.out ELSE j.root

OutputDir(j, f) ==
    LET parts == Parts(j.root, f)
        base_dir_last == j.root[Len(j.root)]
        base_dir_last_idx == IndexOf(parts, base_dir_last)
        joined == OutputBase(j) \o SubSeq(parts, base_dir_last_idx + 1, Len(parts))
    IN SubSeq(joined, 1, Len(joined) - 1)

FormatRaises(tpl) == tpl \in {TplBadToken, TplBadHash}

FormatNameToken(f) == Stem(f.name)

FormattedOutputFilename(tpl, f) ==
    IF tpl = TplName THEN [stem |-> FormatNameToken(f), ext |-> "txt"]
    ELSE [stem |-> "caption", ext |-> "txt"]

OutputPath(j, f) ==
    LET fn == FormattedOutputFilename(j.template, f)
    IN [dir |-> OutputDir(j, f), stem |-> fn.stem, ext |-> fn.ext]

WithSuffixJson(p) == [p EXCEPT !.ext = "json"]

\* mutant: the conflict test reads the directory as it was when the call began
IsFileStale(p) == p \in DOMAIN fs0

IsFile(p) == p \in DOMAIN fs

\* mutant: the ignore policy never short-circuits
SkipNever(policy, exists) == FALSE

SkipExisting(policy, exists) == exists /\ policy = "ignore"

\* mutant: prepend puts the new tags last
NewOutputSwapped(policy, out, plain_tags) ==
    IF policy = "copy" THEN <<plain_tags>> ELSE out \o <<plain_tags>>

\* mutant: copy keeps the existing text
NewOutputCopyKeeps(policy, out, plain_tags) ==
    IF policy = "prepend" THEN <<plain_tags>> \o out ELSE out \o <<plain_tags>>

NewOutput(policy, out, plain_tags) ==
    IF policy = "copy" THEN <<plain_tags>>
    ELSE IF policy = "prepend" THEN <<plain_tags>> \o out
    ELSE out \o <<plain_tags>>

Write(f, p, content) == (p :> content) @@ f

\* mutant: the sidecar is never written
SaveJsonNever(f, enabled, p, raw) == f

SaveJson(f, enabled, p, raw) ==
    IF enabled THEN Write(f, WithSuffixJson(p), raw) ELSE f

\* ------------------------------------------------ give_me_the_tags
Submit ==
    /\ pc \in {"idle", "done", "raised"}
    /\ runs < MaxRuns
    /\ \E n \in CallNames, im \in Images :
        /\ name' = n
        /\ image' = im
    /\ pc' = "check"
    /\ runs' = runs + 1
    /\ fs0' = fs
    /\ dirs0' = dirs
    /\ ran' = IF pc # "idle" /\ image = NoImage /\ idx >= 1 THEN ran \cup {name} ELSE ran
    /\ result' = NoResult
    /\ idx' = 0
    /\ output' = <<>>
    /\ output_path' = NoPath
    /\ interrogated' = {}
    /\ instance' = ""
    /\ seen' = {}
    /\ UNCHANGED <<discovery, disk, inputs>>

\* line 292: if interrogator not in interrogators
GmtCheck ==
    /\ pc = "check"
    /\ seen' = DOMAIN interrogators
    /\ IF name \notin DOMAIN interrogators
       THEN pc' = "done" /\ result' = [text |-> <<>>, info |-> MsgInvalid]
       ELSE pc' = "lookup" /\ UNCHANGED result
    /\ UNCHANGED <<discovery, disk, inputs, history>>
    /\ UNCHANGED <<name, instance, image, idx, output, output_path, interrogated>>

\* line 295: interrogators[interrogator]
GmtLookup ==
    /\ pc = "lookup"
    /\ IF name \notin DOMAIN interrogators
       THEN pc' = "raised" /\ result' = [text |-> <<>>, info |-> "KeyError"]
                /\ UNCHANGED instance
       ELSE /\ instance' = interrogators[name]
            /\ pc' = IF image # NoImage THEN "single" ELSE "batch"
            /\ UNCHANGED result
    /\ UNCHANGED <<discovery, disk, inputs, history>>
    /\ UNCHANGED <<name, image, idx, output, output_path, interrogated, seen>>

\* lines 309-321: single process
GmtSingle ==
    /\ pc = "single"
    /\ \E ok \in BOOLEAN :
        IF ok
        THEN pc' = "done" /\ result' = [text |-> PlainTags([name |-> "x.png"]), info |-> ""]
        ELSE pc' = "raised" /\ result' = [text |-> <<>>, info |-> "interrogate"]
    /\ UNCHANGED <<discovery, disk, inputs, locals, history>>

\* lines 324-357: the glob's root and the files it matches
GmtGlob ==
    /\ pc = "batch"
    /\ IF job.root = <<>>
       THEN pc' = "done" /\ result' = Normal /\ UNCHANGED idx
       ELSE IF ~rootIsDir
       THEN pc' = "done" /\ result' = [text |-> <<>>, info |-> MsgNotDir]
                /\ UNCHANGED idx
       ELSE /\ idx' = 1
            /\ IF paths = <<>>
               THEN pc' = "done" /\ result' = Normal
               ELSE pc' = "open" /\ UNCHANGED result
    /\ UNCHANGED <<discovery, disk, inputs, history>>
    /\ UNCHANGED <<name, instance, image, output, output_path, interrogated, seen>>

\* continue / the end of the loop body, then lines 426-428
Advance ==
    /\ idx' = idx + 1
    /\ IF idx + 1 > Len(paths)
       THEN pc' = "done" /\ result' = Normal
       ELSE pc' = "open" /\ UNCHANGED result

\* lines 360-365: Image.open(path)
GmtOpen ==
    /\ pc = "open"
    /\ IF paths[idx].kind = "unidentified"
       THEN Advance
       ELSE IF paths[idx].kind = "unreadable"
       THEN pc' = "raised" /\ result' = [text |-> <<>>, info |-> "OSError"]
                /\ UNCHANGED idx
       ELSE pc' = "resolve" /\ UNCHANGED <<idx, result>>
    /\ UNCHANGED <<discovery, disk, inputs, history>>
    /\ UNCHANGED <<name, instance, image, output, output_path, interrogated, seen>>

\* lines 367-397: the output path, mkdir, the filename format, the conflict test
GmtResolve ==
    /\ pc = "resolve"
    /\ LET f == paths[idx]
           p == OutputPath(job, f)
       IN /\ dirs' = dirs \cup Prefixes(OutputDir(job, f))
          /\ IF FormatRaises(job.template)
             THEN /\ pc' = "done"
                  /\ result' = [text |-> <<>>, info |-> MsgFormat]
                  /\ UNCHANGED <<idx, output, output_path>>
             ELSE /\ output_path' = p
                  /\ output' = IF IsFile(p) THEN <<fs[p]>> ELSE <<>>
                  /\ IF SkipExisting(job.policy, IsFile(p))
                     THEN Advance
                     ELSE pc' = "interrogate" /\ UNCHANGED <<idx, result>>
    /\ UNCHANGED <<discovery, fs, inputs, history>>
    /\ UNCHANGED <<name, instance, image, interrogated, seen>>

\* lines 399-424: interrogate, merge with the existing text, write text and JSON
GmtInterrogate ==
    /\ pc = "interrogate"
    /\ interrogated' = interrogated \cup {idx}
    /\ LET f == paths[idx]
       IN IF f.kind = "broken"
          THEN /\ pc' = "raised"
               /\ result' = [text |-> <<>>, info |-> "interrogate"]
               /\ UNCHANGED <<idx, output, fs>>
          ELSE /\ output' = NewOutput(job.policy, output, PlainTags(f))
               /\ fs' = SaveJson(Write(fs, output_path, Join(output', <<" ">>)),
                                 job.save_json, output_path, Interrogate(f))
               /\ Advance
    /\ UNCHANGED <<discovery, dirs, inputs, history>>
    /\ UNCHANGED <<name, instance, image, output_path, seen>>


\* ------------------------------------------- refresh_interrogators
Empty == [n \in {} |-> ""]

\* mutant: refresh keeps the previous table and adds to it
RefreshMerge ==
    /\ rpc = "idle"
    /\ rpc' = "vit"
    /\ fresh' = TRUE
    /\ UNCHANGED <<interrogators, projDir, rscan, rret>>
    /\ UNCHANGED <<disk, inputs, locals, pc, result, history>>

\* lines 33-34: interrogators = {}
RefreshReset ==
    /\ rpc = "idle"
    /\ interrogators' = Empty
    /\ rpc' = "vit"
    /\ fresh' = TRUE
    /\ UNCHANGED <<projDir, rscan, rret>>
    /\ UNCHANGED <<disk, inputs, locals, pc, result, history>>

\* line 37
RefreshVit ==
    /\ rpc = "vit"
    /\ interrogators' = ("wd14-vit" :> "WaifuDiffusion") @@ interrogators
    /\ rpc' = "convnext"
    /\ UNCHANGED <<projDir, rscan, rret, fresh>>
    /\ UNCHANGED <<disk, inputs, locals, pc, result, history>>

\* lines 38-40
RefreshConvnext ==
    /\ rpc = "convnext"
    /\ interrogators' = ("wd14-convnext" :> "WaifuDiffusion") @@ interrogators
    /\ rpc' = "scandir"
    /\ UNCHANGED <<projDir, rscan, rret, fresh>>
    /\ UNCHANGED <<disk, inputs, locals, pc, result, history>>

\* lines 43-48: os.makedirs(exist_ok=True), os.scandir: the entries, each with
\* the is_dir() the directory listing gives
RefreshScandir ==
    /\ rpc = "scandir"
    /\ rscan' = {[name |-> n, is_dir |-> projDir[n] # "file"] : n \in DOMAIN projDir}
    /\ rpc' = "loop"
    /\ UNCHANGED <<interrogators, projDir, rret, fresh>>
    /\ UNCHANGED <<disk, inputs, locals, pc, result, history>>

\* Path(path, 'project.json').is_file(), read when the loop reaches the entry
HasProjectJson(n) == n \in DOMAIN projDir /\ projDir[n] = "project"

\* lines 48-55: one iteration of the loop
RefreshEntry ==
    /\ rpc = "loop"
    /\ \E e \in rscan :
        /\ rscan' = rscan \ {e}
        /\ interrogators' =
             IF e.is_dir /\ HasProjectJson(e.name)
             THEN (e.name :> "DeepDanbooru") @@ interrogators
             ELSE interrogators
    /\ UNCHANGED <<projDir, rpc, rret, fresh>>
    /\ UNCHANGED <<disk, inputs, locals, pc, result, history>>

\* line 57: return sorted(interrogators.keys())
RefreshReturn ==
    /\ rpc = "loop"
    /\ rscan = {}
    /\ rret' = Sorted(DOMAIN interrogators)
    /\ rpc' = "idle"
    /\ UNCHANGED <<interrogators, projDir, rscan, fresh>>
    /\ UNCHANGED <<disk, inputs, locals, pc, result, history>>

\* the projects directory changes under the program: an entry appears,
\* disappears, or becomes another kind of entry
DirChange ==
    /\ \E n \in ProjNames, k \in EntryKinds \cup {"absent"} :
        /\ k # (IF n \in DOMAIN projDir THEN projDir[n] ELSE "absent")
        /\ projDir' = IF k = "absent"
                      THEN [m \in DOMAIN projDir \ {n} |-> projDir[m]]
                      ELSE (n :> k) @@ projDir
    /\ fresh' = FALSE
    /\ UNCHANGED <<interrogators, rpc, rscan, rret>>
    /\ UNCHANGED <<disk, inputs, locals, pc, result, history>>

\* ------------------------------------------------------------------ Init
Files(Subs, n) ==
    {s \in [1..n -> [name : Range(ImageNames), sub : Subs, kind : Kinds]] :
        \A i \in 1..n : s[i].name = ImageNames[i]}

Table(pd) ==
    [n \in Builtins \cup {e \in DOMAIN pd : pd[e] = "project"} |->
        IF n \in DOMAIN pd /\ pd[n] = "project" THEN "DeepDanbooru" ELSE "WaifuDiffusion"]

InitWith(Roots, Subs, Pols, Tpls, ProjDirs) ==
    /\ projDir \in ProjDirs
    /\ interrogators = Table(projDir)
    /\ rpc = "idle"
    /\ rscan = {}
    /\ rret = Sorted(DOMAIN interrogators)
    /\ fresh = TRUE
    /\ job \in [root : Roots \cup {<<>>}, out : {<<>>, OutDir}, template : Tpls,
                policy : Pols, save_json : BOOLEAN]
    /\ rootIsDir \in BOOLEAN
    /\ paths \in UNION {Files(Subs, n) : n \in 0..MaxFiles}
    /\ (job.root = <<>> \/ ~rootIsDir) => paths = <<>>
    /\ (job.root = <<>>) => rootIsDir = FALSE /\ job.out = <<>>
    /\ LET targets == IF FormatRaises(job.template) THEN {}
                      ELSE {OutputPath(job, paths[i]) : i \in DOMAIN paths}
       IN \E S \in SUBSET targets :
            /\ fs = [p \in S |-> Existing]
            /\ dirs = (IF rootIsDir THEN Prefixes(job.root) ELSE {})
                        \cup UNION {Prefixes(job.root \o paths[i].sub) : i \in DOMAIN paths}
                        \cup UNION {Prefixes(p.dir) : p \in S}
    /\ pc = "idle"
    /\ name = ""
    /\ instance = ""
    /\ image = NoImage
    /\ idx = 0
    /\ output = <<>>
    /\ output_path = NoPath
    /\ interrogated = {}
    /\ result = NoResult
    /\ seen = {}
    /\ runs = 0
    /\ fs0 = fs
    /\ dirs0 = dirs
    /\ ran = {}

\* the batch loop: one glob root, files directly under it
Init == InitWith({<<"a">>}, {<<>>}, Policies, Templates, {<<>>})

\* the batch loop over every root and every position of a file under it
InitMirror ==
    InitWith(SeqsUpTo(DirNames, 1, MaxRootLen), SeqsUpTo(DirNames, 0, MaxSubLen),
             {"copy"}, {TplName}, {<<>>})

\* the interrogator table: requests with a blank input glob, one project on disk
InitDiscovery == InitWith({}, {<<>>}, {"ignore"}, {TplName}, {("p1" :> "project")})

Next ==
    \/ Submit
    \/ GmtCheck
    \/ GmtLookup
    \/ GmtSingle
    \/ GmtGlob
    \/ GmtOpen
    \/ GmtResolve
    \/ GmtInterrogate

NextDiscovery ==
    \/ Submit
    \/ GmtCheck
    \/ GmtLookup
    \/ GmtSingle
    \/ GmtGlob
    \/ RefreshReset
    \/ RefreshVit
    \/ RefreshConvnext
    \/ RefreshScandir
    \/ RefreshEntry
    \/ RefreshReturn
    \/ DirChange

Spec == Init /\ [][Next]_vars

SpecMirror == InitMirror /\ [][Next]_vars

SpecDiscovery == InitDiscovery /\ [][NextDiscovery]_vars

\* ---------------------------------------------------------------- claims
TextOf(f) == [p \in {q \in DOMAIN f : q.ext = "txt"} |-> f[p]]

Targets == {OutputPath(job, paths[i]) : i \in DOMAIN paths}

Sources(p) == {i \in DOMAIN paths : OutputPath(job, paths[i]) = p}

Decodable(S) == {i \in S : paths[i].kind \in {"good", "broken"}}

First(S) == CHOOSE i \in S : \A j \in S : i <= j

Ended == pc \in {"done", "raised"}

\* C1: the step that interrogates a file and writes its text leaves the output
\* file holding exactly N when no file was there; when a file with content E was
\* there it leaves N under copy, E, one space, N under append and N, one space,
\* E under prepend.
C1_ConflictPolicies ==
    [][(pc = "interrogate" /\ pc' # "raised") =>
        LET p == OutputPath(job, paths[idx])
            N == PlainTags(paths[idx])
        IN /\ p \in DOMAIN fs'
           /\ IF p \notin DOMAIN fs THEN fs'[p] = N
              ELSE /\ job.policy # "ignore"
                   /\ job.policy = "copy" => fs'[p] = N
                   /\ job.policy = "append" => fs'[p] = fs[p] \o <<" ">> \o N
                   /\ job.policy = "prepend" => fs'[p] = N \o <<" ">> \o fs[p]]_vars

\* C1 witness: a prepend run has ended with "c, d a, b" written over "a, b".
C1_Witness ==
    /\ pc = "done"
    /\ job.policy = "prepend"
    /\ \E p \in DOMAIN fs0 :
        /\ fs0[p] = <<"a", ",", " ", "b">>
        /\ fs[p] = <<"c", ",", " ", "d", " ", "a", ",", " ", "b">>

\* C2: under ignore no step changes or removes a text file that exists, the
\* interrogator is only ever invoked for a file whose output text file does not
\* exist, and the step that finds the output text file of the current file
\* moves on to the next file (or to the normal end of the batch).
C2_IgnoreSkips ==
    [][job.policy = "ignore" =>
        /\ \A p \in DOMAIN fs : p.ext = "txt" => p \in DOMAIN fs' /\ fs'[p] = fs[p]
        /\ \A i \in interrogated' \ interrogated :
              OutputPath(job, paths[i]) \notin DOMAIN fs
        /\ (pc = "resolve" /\ ~FormatRaises(job.template)
                /\ OutputPath(job, paths[idx]) \in DOMAIN fs) =>
              /\ idx' = idx + 1
              /\ interrogated' = interrogated
              /\ fs' = fs
              /\ IF idx < Len(paths) THEN pc' = "open"
                 ELSE pc' = "done" /\ result' = Normal]_vars

\* C2 witness: under ignore the loop is at the second file, the first decoded,
\* was not interrogated and its text file still holds what it held.
C2_Witness ==
    /\ job.policy = "ignore"
    /\ pc = "open"
    /\ idx = 2
    /\ paths[1].kind = "good"
    /\ 1 \notin interrogated
    /\ OutputPath(job, paths[1]) \in DOMAIN fs
    /\ fs[OutputPath(job, paths[1])] = Existing

\* C3 as stated: with save_json, once the loop is done with a file it decoded,
\* the JSON sidecar of that file holds its raw [ratings, tags], under every
\* policy.
C3_JsonEveryPolicy ==
    [][(job.save_json /\ pc \in {"resolve", "interrogate"} /\ idx' = idx + 1) =>
        LET q == WithSuffixJson(OutputPath(job, paths[idx]))
        IN q \in DOMAIN fs' /\ fs'[q] = Interrogate(paths[idx])]_vars

\* C3 amended: with save_json, the step that interrogates a file and writes its
\* text writes the sidecar with the raw [ratings, tags]; the only other way the
\* loop gets past a decoded file is the ignore policy finding its text file, and
\* that step writes nothing.
C3_JsonWhenInterrogated ==
    [][job.save_json =>
        /\ (pc = "interrogate" /\ idx' = idx + 1) =>
              LET q == WithSuffixJson(OutputPath(job, paths[idx]))
              IN q \in DOMAIN fs' /\ fs'[q] = Interrogate(paths[idx])
        /\ (pc = "resolve" /\ idx' = idx + 1) =>
              /\ job.policy = "ignore"
              /\ OutputPath(job, paths[idx]) \in DOMAIN fs
              /\ fs' = fs]_vars

\* C3 witness: an ignore run with save_json has ended; the first file was
\* skipped and has no sidecar, the second was interrogated and has one.
C3_Witness ==
    /\ pc = "done"
    /\ job.policy = "ignore"
    /\ job.save_json
    /\ Len(paths) = 2
    /\ interrogated = {2}
    /\ paths[1].kind = "good"
    /\ WithSuffixJson(OutputPath(job, paths[1])) \notin DOMAIN fs
    /\ WithSuffixJson(OutputPath(job, paths[2])) \in DOMAIN fs
    /\ fs[WithSuffixJson(OutputPath(job, paths[2]))] = Interrogate(paths[2])

\* C4 as stated: a batch call that reached the loop ends by returning its
\* normal result, and every file that decodes and interrogates without error
\* has its output text file.
C4_FailuresNeverAbort ==
    (Ended /\ image = NoImage /\ idx >= 1 /\ ~FormatRaises(job.template)) =>
        /\ pc = "done"
        /\ result = Normal
        /\ \A i \in DOMAIN paths :
              paths[i].kind = "good" => OutputPath(job, paths[i]) \in DOMAIN fs

\* C5 as stated: a call that returns a configuration error message has created
\* no directory and written no file.
C5_ConfigErrorsNoSideEffects ==
    (pc = "done" /\ result.info \in {MsgInvalid, MsgNotDir, MsgFormat}) =>
        dirs = dirs0 /\ fs = fs0

\* C6: when refresh_interrogators has returned and no entry of the projects
\* directory changed since that call began, the table's keys are the two
\* built-in names and the names of the entries that are directories holding
\* project.json, and the list returned is those keys in increasing order.
C6_RefreshWholesale ==
    (rpc = "idle" /\ fresh) =>
        /\ DOMAIN interrogators =
              Builtins \cup {n \in ProjNames : n \in DOMAIN projDir /\ projDir[n] = "project"}
        /\ Range(rret) = DOMAIN interrogators
        /\ \A i, j \in DOMAIN rret : i < j => Rank(rret[i]) < Rank(rret[j])

\* C6 witness: p1 was in the table at start; after a refresh it is gone (it is
\* now a directory without project.json) and p2 is there.
C6_Witness ==
    /\ rpc = "idle"
    /\ fresh
    /\ "p1" \in DOMAIN projDir
    /\ projDir["p1"] = "dir"
    /\ DOMAIN interrogators = Builtins \cup {"p2"}
    /\ rret = <<"p2", "wd14-convnext", "wd14-vit">>

\* C7 as stated: a call never reads a table without the built-in names, is never
\* answered 'is not a valid interrogator' for a built-in name, and the lookup
\* after the membership test never raises.
C7_AtomicSwap ==
    /\ pc \in {"lookup", "single", "batch", "done", "raised"} => Builtins \subseteq seen
    /\ ~(pc = "done" /\ result.info = MsgInvalid /\ name \in Builtins)
    /\ ~(pc = "raised" /\ result.info = "KeyError")

\* C8 as stated: a batch call for an interrogator a batch call has already
\* ended for leaves every text file as it found it, under every policy.
C8_Idempotent ==
    (Ended /\ image = NoImage /\ idx >= 1 /\ name \in ran) => TextOf(fs) = TextOf(fs0)

\* C8 amended: the same, under the policies ignore and copy.
C8_IdempotentIgnoreCopy ==
    (Ended /\ image = NoImage /\ idx >= 1 /\ name \in ran
        /\ job.policy \in {"ignore", "copy"}) => TextOf(fs) = TextOf(fs0)

\* C8 witness: a second copy run has ended after writing a text file again.
C8_Witness ==
    /\ pc = "done"
    /\ image = NoImage
    /\ name \in ran
    /\ job.policy = "copy"
    /\ interrogated # {}
    /\ \E i \in interrogated : fs[OutputPath(job, paths[i])] = PlainTags(paths[i])

\* C9 as stated: the directory of the output path is the output directory (or
\* the root when none is configured) followed by the directories between the
\* root and the file.
C9_Mirroring ==
    pc = "interrogate" => output_path.dir = OutputBase(job) \o paths[idx].sub

\* C10 as stated: under ignore, among the files resolving to one output path
\* the interrogator is invoked for at most one, for none when the text file was
\* there when the call began, never for a file the loop has not reached, and
\* when the call has ended a text file that was not there before holds the tags
\* of the first file resolving to it.
C10_FirstSourceWins ==
    (job.policy = "ignore" /\ ~FormatRaises(job.template)) =>
        /\ \A i \in interrogated : i <= idx
        /\ \A p \in Targets :
            /\ Cardinality(interrogated \cap Sources(p)) <= 1
            /\ p \in DOMAIN fs0 => interrogated \cap Sources(p) = {} /\ fs[p] = fs0[p]
            /\ (Ended /\ p \in DOMAIN fs /\ p \notin DOMAIN fs0) =>
                  fs[p] = PlainTags(paths[First(Sources(p))])

\* C10 amended: the same, with the first file resolving to the path that
\* Image.open decodes.
C10_FirstDecodableSourceWins ==
    (job.policy = "ignore" /\ ~FormatRaises(job.template)) =>
        /\ \A i \in interrogated : i <= idx
        /\ \A p \in Targets :
            /\ Cardinality(interrogated \cap Sources(p)) <= 1
            /\ p \in DOMAIN fs0 => interrogated \cap Sources(p) = {} /\ fs[p] = fs0[p]
            /\ (Ended /\ p \in DOMAIN fs /\ p \notin DOMAIN fs0) =>
                  /\ Decodable(Sources(p)) # {}
                  /\ fs[p] = PlainTags(paths[First(Decodable(Sources(p)))])

\* C10 witness: an ignore run over two files resolving to one path has ended;
\* only the first was interrogated and the file holds its tags.
C10_Witness ==
    /\ pc = "done"
    /\ job.policy = "ignore"
    /\ Len(paths) = 2
    /\ OutputPath(job, paths[1]) = OutputPath(job, paths[2])
    /\ paths[2].kind = "good"
    /\ interrogated = {1}
    /\ fs[OutputPath(job, paths[1])] = PlainTags(paths[1])
====
